---- MODULE Spec2Model ----
(***************************************************************************)
(* A model of file_organizer.py: the FileOrganizer class (find, organize,  *)
(* organize multiple) over a small POSIX-like filesystem, and the command  *)
(* line dispatch of main().                                                *)
(*                                                                         *)
(* A name is a sequence of one-character strings, a path is a sequence of  *)
(* names starting at the filesystem root.  The filesystem is the set of    *)
(* directories `dirs`, the regular files `files` (path -> content) and the *)
(* directories the process may not write to, `locked`.                     *)
(***************************************************************************)
EXTENDS Integers, Sequences, FiniteSets, TLC

VARIABLES
    files,      \* [path -> content]: the regular files; the content of a
                \* file is named by the path it had in the initial tree
    dirs,       \* set of paths: the directories
    locked,     \* set of directories without write permission
    organizer,  \* the FileOrganizer instance: source_dir, dest_dir, dry_run
    pc,         \* where the program is
    call,       \* frame of the running (or last) organize_files call
    prev,       \* frame of the organize_files call before it
    patterns_dict, \* the dict organize_multiple_patterns is called with,
                \* as the sequence of its items
    pending,    \* organize_multiple_patterns: the dict items not yet visited
    results,    \* organize_multiple_patterns: the results dict
    argv,       \* main: the command line
    todo,       \* main: the --pattern arguments not yet organized
    invalid,    \* main: the mappings reported as invalid
    found,      \* the last client call of find_files_with_pattern
    ncalls      \* number of organize_files calls the client asked for

vars == <<files, dirs, locked, organizer, pc, call, prev, patterns_dict,
          pending, results, argv, todo, invalid, found, ncalls>>

fsvars == <<files, dirs, locked>>

----------------------------------------------------------------------------
(* Bounds of the model.                                                    *)

MaxDepth == 2       \* depth of the directory chain under source_dir
MaxFiles == 2       \* regular files in the initial tree
MaxCalls == 2       \* client calls in one run
MaxMaps == 2        \* entries of a patterns dict / --map arguments
MaxPatterns == 1    \* --pattern arguments

\* Python's None, as a name and as a path
None == <<"None">>
NoPath == <<None>>

----------------------------------------------------------------------------
(* Names and strings.                                                      *)

\* str.lower() on one character
LowerChar(c) ==
    CASE c = "A" -> "a"
      [] c = "B" -> "b"
      [] c = "T" -> "t"
      [] OTHER -> c

\* str.lower()
Lower(s) == [i \in 1..Len(s) |-> LowerChar(s[i])]

\* `p in s` on strings: p occurs in s as a contiguous substring
Contains(s, p) ==
    \E k \in 0..(Len(s) - Len(p)) :
        \A i \in 1..Len(p) : s[k + i] = p[i]

\* the comparison without lowering: a case-sensitive match
NameMatchesCaseSensitive(name, pattern) == Contains(name, pattern)

\* line 50: pattern.lower() in file_path.name.lower()
NameMatches(name, pattern) == Contains(Lower(name), Lower(pattern))

NameA == <<"a">>
NameAb == <<"A", "b">>
NameT == <<"t">>

FileNames == {NameA, NameAb}
Patterns == {<< >>, <<"a">>, <<"B">>}
Folders == {NameA, NameT}

----------------------------------------------------------------------------
(* Paths.                                                                  *)

SourceRoot == << <<"s">> >>
OtherRoot == << <<"o">> >>

\* os.path.basename / Path.name
Basename(p) == p[Len(p)]

\* os.path.dirname
Parent(p) == SubSeq(p, 1, Len(p) - 1)

\* os.path.join(dir, name) followed by os.path.abspath: joining the empty
\* string gives "dir/", which normalises to dir
JoinPath(dir, name) == IF name = << >> THEN dir ELSE Append(dir, name)

IsPrefix(d, p) == Len(d) <= Len(p) /\ SubSeq(p, 1, Len(d)) = d

IsFile(p) == p \in DOMAIN files
IsDir(p) == p \in dirs
Exists(p) == IsFile(p) \/ IsDir(p)

\* the directory a^k under source_dir
RECURSIVE Chain(_)
Chain(k) == IF k = 0 THEN SourceRoot ELSE Append(Chain(k - 1), NameA)

----------------------------------------------------------------------------
(* Sequences helpers.                                                      *)

Range(s) == {s[i] : i \in 1..Len(s)}

\* every enumeration of the finite set S, without repetition
Perms(S) ==
    {s \in [1..Cardinality(S) -> S] : \A i, j \in 1..Cardinality(S) :
        i # j => s[i] # s[j]}

\* the function f without the key k
Without(f, k) == [x \in DOMAIN f \ {k} |-> f[x]]

\* the function f with f[k] = v added or overwritten
With(f, k, v) == [x \in DOMAIN f \cup {k} |-> IF x = k THEN v ELSE f[x]]

----------------------------------------------------------------------------
(* The filesystem calls the program makes.                                 *)

ChildFiles(dir) == {p \in DOMAIN files : Parent(p) = dir}
ChildDirs(dir) == {p \in dirs : Len(p) > 0 /\ Parent(p) = dir}

\* lines 49-51: the entries of one directory that pass the filter
\* file_path.is_file() and pattern.lower() in file_path.name.lower()
MatchedIn(dir, pattern) ==
    {p \in ChildFiles(dir) : NameMatches(Basename(p), pattern)}

\* Path.glob('**/*') filtered: the directories are visited top-down, each
\* before its subdirectories, and the entries of one directory come in
\* the order the operating system lists them, which is arbitrary.
RECURSIVE WalkOrders(_, _), ConcatWalks(_, _)
WalkOrders(dir, pattern) ==
    {f \o r : f \in Perms(MatchedIn(dir, pattern)),
              r \in UNION {ConcatWalks(ds, pattern) : ds \in Perms(ChildDirs(dir))}}
ConcatWalks(ds, pattern) ==
    IF ds = << >> THEN {<< >>}
    ELSE {w \o r : w \in WalkOrders(Head(ds), pattern),
                   r \in ConcatWalks(Tail(ds), pattern)}

\* a search that never descends: glob('*') whatever `recursive` is
FindOrdersTopLevel(pattern, recursive) ==
    Perms(MatchedIn(organizer.source_dir, pattern))

\* find_files_with_pattern(pattern, recursive): the lists it may return
FindOrders(pattern, recursive) ==
    IF recursive THEN WalkOrders(organizer.source_dir, pattern)
    ELSE Perms(MatchedIn(organizer.source_dir, pattern))

\* the ancestors of d, d included, below the filesystem root
Prefixes(d) == {SubSeq(d, 1, k) : k \in 1..Len(d)}

\* os.makedirs(d) succeeds when no ancestor is a regular file and the
\* deepest existing ancestor is writable
MakedirsOk(d) ==
    /\ \A a \in Prefixes(d) : ~IsFile(a)
    /\ \E a \in Prefixes(d) :
          /\ IsDir(a)
          /\ a \notin locked
          /\ \A b \in Prefixes(d) : Len(b) > Len(a) => ~IsDir(b)

\* shutil.move(src, dst) of a regular file: [ok, files] where ok is FALSE
\* when it raises and files is the file table it leaves behind.
\*   - dst an existing directory: the file goes inside it, and it raises
\*     when that path exists;
\*   - os.rename replaces an existing regular file; it needs write
\*     permission on both parent directories;
\*   - when os.rename fails it copies (copy2, which writes over an
\*     existing file or creates one) and then unlinks src.
ShutilMove(src, dst) ==
    LET real_dst == IF IsDir(dst) THEN Append(dst, Basename(src)) ELSE dst
        renameOk == /\ IsFile(src)
                    /\ IsDir(Parent(real_dst))
                    /\ Parent(src) \notin locked
                    /\ Parent(real_dst) \notin locked
        copyOk == /\ IsFile(src)
                  /\ IsDir(Parent(real_dst))
                  /\ (IsFile(real_dst) \/ Parent(real_dst) \notin locked)
        unlinkOk == Parent(src) \notin locked
    IN  IF IsDir(dst) /\ Exists(real_dst)
          THEN [ok |-> FALSE, files |-> files]
        ELSE IF renameOk
          THEN [ok |-> TRUE,
                files |-> With(Without(files, src), real_dst, files[src])]
        ELSE IF ~copyOk
          THEN [ok |-> FALSE, files |-> files]
        ELSE IF unlinkOk
          THEN [ok |-> TRUE,
                files |-> With(Without(files, src), real_dst, files[src])]
        ELSE [ok |-> FALSE, files |-> With(files, real_dst, files[src])]

----------------------------------------------------------------------------
(* The initial states: an organizer built on some file tree.               *)

OtherA == Append(OtherRoot, NameA)

\* a frame before any organize_files call
NoCall ==
    [status |-> "none", pattern |-> << >>, folder |-> << >>,
     target_dir |-> << >>, created |-> FALSE, matching |-> << >>, idx |-> 1,
     moved_count |-> 0, outcomes |-> << >>, pre |-> << >>, external |-> {},
     caller |-> "none"]

\* before any client call of find_files_with_pattern
NoFound == [called |-> FALSE, pattern |-> << >>, recursive |-> FALSE,
            matching_files |-> << >>]

NoArgv ==
    [given |-> FALSE, source_dir |-> FALSE, dest_dir |-> NoPath,
     pattern |-> << >>, map |-> << >>, dry_run |-> FALSE,
     interactive |-> FALSE]

\* The tree: source_dir with a chain of k subdirectories named "a", a
\* sibling directory outside source_dir that holds a folder "a" when there
\* are files in it, and at most MaxFiles regular files; at most one
\* directory is read-only.
TreeInit ==
    \E k \in 0..MaxDepth :
        LET chain == {Chain(j) : j \in 0..k}
            positions == {Append(d, n) : d \in chain \cup {OtherA},
                                         n \in FileNames} \ chain
        IN  \E where \in SUBSET positions :
              /\ Cardinality(where) <= MaxFiles
              /\ files = [p \in where |-> p]
              /\ dirs = chain \cup {OtherRoot} \cup {Parent(p) : p \in where}
              /\ \E l \in SUBSET dirs : Cardinality(l) <= 1 /\ locked = l

\* __init__ (lines 21-23): dest_dir defaults to source_dir
NewOrganizer(source_dir, dest_dir, dry_run) ==
    [source_dir |-> source_dir,
     dest_dir |-> IF dest_dir # NoPath THEN dest_dir ELSE source_dir,
     dry_run |-> dry_run]

Idle ==
    /\ call = NoCall
    /\ prev = [pattern |-> << >>, folder |-> << >>, status |-> "none",
               failed |-> FALSE, pre |-> << >>, external |-> {}]
    /\ patterns_dict = << >>
    /\ pending = << >>
    /\ results = << >>
    /\ argv = NoArgv
    /\ todo = << >>
    /\ invalid = << >>
    /\ found = NoFound
    /\ ncalls = 0

Init ==
    /\ TreeInit
    /\ \E d \in {NoPath, OtherRoot}, dry \in BOOLEAN :
          organizer = NewOrganizer(SourceRoot, d, dry)
    \* a folder outside source_dir matters only when it is the destination
    /\ OtherA \in dirs => organizer.dest_dir = OtherRoot
    /\ pc = "idle"
    /\ Idle

----------------------------------------------------------------------------
(* organize_files, lines 55-98.                                            *)

\* lines 66-67: the folder name defaults to the pattern
FolderName(pattern, target_folder_name) ==
    IF target_folder_name = None THEN pattern ELSE target_folder_name

\* line 71: whether os.makedirs is called
MakesTarget(target_dir) == ~organizer.dry_run /\ ~Exists(target_dir)

\* lines 81-82: destination = os.path.join(target_dir, basename(file_path))
Destination(target_dir, file_path) == Append(target_dir, Basename(file_path))

\* the loop without the dry-run branch of line 88
OutcomeIgnoringDryRun(file_path, destination, ok) ==
    IF file_path = destination THEN "skipped"
    ELSE IF ok THEN "moved"
    ELSE "error"

\* the loop without the try/except of lines 91-96: a failed move counted
OutcomeCountingFailures(file_path, destination, ok) ==
    IF file_path = destination THEN "skipped"
    ELSE IF organizer.dry_run THEN "would_move"
    ELSE "moved"

\* the loop without the same-path test of line 85
OutcomeWithoutSkip(file_path, destination, ok) ==
    IF organizer.dry_run THEN "would_move"
    ELSE IF ok THEN "moved"
    ELSE "error"

\* lines 85-96: what the loop does with one matched file, given whether
\* shutil.move would return (ok) or raise
Outcome(file_path, destination, ok) ==
    IF file_path = destination THEN "skipped"
    ELSE IF organizer.dry_run THEN "would_move"
    ELSE IF ok THEN "moved"
    ELSE "error"

\* lines 66-76 and 79: the target directory is made, the files are
\* matched.  os.makedirs raising leaves the call by an exception.  The
\* directory just made is empty, so the match is the same before and
\* after it.
Begin(pattern, target_folder_name, caller) ==
    LET folder == FolderName(pattern, target_folder_name)
        target_dir == JoinPath(organizer.dest_dir, folder)
        make == MakesTarget(target_dir)
        frame == [status |-> "running", pattern |-> pattern,
                  folder |-> folder, target_dir |-> target_dir,
                  created |-> make, matching |-> << >>, idx |-> 1,
                  moved_count |-> 0, outcomes |-> << >>, pre |-> files,
                  external |-> {}, caller |-> caller]
    IN  /\ prev' = [pattern |-> call.pattern, folder |-> call.folder,
                    status |-> call.status,
                    failed |-> "error" \in Range(call.outcomes),
                    pre |-> call.pre, external |-> call.external]
        /\ IF make /\ ~MakedirsOk(target_dir)
             THEN /\ call' = [frame EXCEPT !.status = "raised", !.created = FALSE]
                  /\ pc' = "raised"
                  /\ dirs' = dirs
             ELSE /\ dirs' = IF make THEN dirs \cup Prefixes(target_dir) ELSE dirs
                  /\ \E m \in FindOrders(pattern, TRUE) :
                        call' = [frame EXCEPT !.matching = m]
                  /\ pc' = "moving"
        /\ found' = NoFound
        /\ UNCHANGED <<files, locked, organizer>>

\* lines 80-96: one iteration of the loop over matching_files
MoveStep ==
    LET file_path == call.matching[call.idx]
        destination == Destination(call.target_dir, file_path)
        moved == ShutilMove(file_path, destination)
        outcome == Outcome(file_path, destination, moved.ok)
    IN  /\ pc = "moving"
        /\ call.idx <= Len(call.matching)
        /\ files' = IF outcome \in {"moved", "error"} THEN moved.files ELSE files
        /\ call' = [call EXCEPT
                      !.idx = @ + 1,
                      !.moved_count = IF outcome = "moved" THEN @ + 1 ELSE @,
                      !.outcomes = Append(@, outcome)]
        /\ UNCHANGED <<dirs, locked, organizer, pc, prev, patterns_dict, pending, results,
                       argv, todo, invalid, found, ncalls>>

\* line 98: return moved_count, to the caller's next line (line 114 in
\* organize_multiple_patterns stores it under the pattern)
Return ==
    /\ pc = "moving"
    /\ call.idx > Len(call.matching)
    /\ call' = [call EXCEPT !.status = "returned"]
    /\ pc' = call.caller
    /\ results' = IF call.caller = "multi"
                    THEN With(results, call.pattern, call.moved_count)
                    ELSE results
    /\ UNCHANGED <<files, dirs, locked, organizer, prev, patterns_dict, pending, argv, todo,
                   invalid, found, ncalls>>

----------------------------------------------------------------------------
(* organize_multiple_patterns, lines 100-116.                              *)

\* the dicts {pattern: folder_name} with at most n items, as the sequence
\* of their items in insertion order (the order .items() yields)
Dicts(n) ==
    {d \in UNION {[1..k -> Patterns \X Folders] : k \in 0..n} :
        \A i, j \in 1..Len(d) : i # j => d[i][1] # d[j][1]}

\* lines 112-113: the next item of patterns_dict.items(), or line 116
MultiNext ==
    /\ pc = "multi"
    /\ IF pending = << >>
         THEN /\ pc' = IF argv.given THEN "exit" ELSE "idle"
              /\ UNCHANGED <<files, dirs, locked, organizer, call, prev,
                             pending, found>>
         ELSE /\ Begin(Head(pending)[1], Head(pending)[2], "multi")
              /\ pending' = Tail(pending)
    /\ UNCHANGED <<patterns_dict, results, argv, todo, invalid, ncalls>>

----------------------------------------------------------------------------
(* A client of the class, and the other processes on the machine.          *)

\* organizer.organize_files(pattern, target_folder_name)
ClientOrganize ==
    /\ pc = "idle"
    /\ ncalls < MaxCalls
    /\ \E pattern \in Patterns, folder \in Folders \cup {None} :
          Begin(pattern, folder, "idle")
    /\ ncalls' = ncalls + 1
    /\ UNCHANGED <<patterns_dict, pending, results, argv, todo, invalid>>

\* organizer.organize_multiple_patterns(patterns_dict)
ClientMultiple ==
    /\ pc = "idle"
    /\ \E d \in Dicts(MaxMaps) :
          /\ ncalls + Len(d) <= MaxCalls
          /\ Len(d) > 0
          /\ patterns_dict' = d
          /\ pending' = d
          /\ ncalls' = ncalls + Len(d)
    /\ results' = << >>
    /\ pc' = "multi"
    /\ UNCHANGED <<files, dirs, locked, organizer, call, prev, argv, todo, invalid,
                   found>>

\* another process removes a matched file before the loop reaches it
ExternalRemove ==
    /\ pc = "moving"
    /\ \E j \in call.idx..Len(call.matching) :
          /\ IsFile(call.matching[j])
          /\ files' = Without(files, call.matching[j])
          /\ call' = [call EXCEPT !.external = @ \cup {call.matching[j]}]
    /\ UNCHANGED <<dirs, locked, organizer, pc, prev, patterns_dict, pending, results,
                   argv, todo, invalid, found, ncalls>>

\* organizer.find_files_with_pattern(pattern, recursive), lines 25-53
ClientFind ==
    /\ pc = "idle"
    /\ \E pattern \in Patterns, recursive \in BOOLEAN :
          \E m \in FindOrders(pattern, recursive) :
             found' = [called |-> TRUE, pattern |-> pattern,
                       recursive |-> recursive, matching_files |-> m]
    /\ UNCHANGED <<files, dirs, locked, organizer, pc, call, prev, patterns_dict, pending,
                   results, argv, todo, invalid, ncalls>>

Next ==
    \/ ClientOrganize
    \/ ClientMultiple
    \/ MultiNext
    \/ MoveStep
    \/ Return
    \/ ExternalRemove

Spec == Init /\ [][Next]_vars

\* a client that only searches
NextFind == ClientFind


SpecFind == Init /\ [][NextFind]_vars

----------------------------------------------------------------------------
(* main, lines 376-432.                                                    *)

\* the --map arguments tried: pattern:folder, one without the separator,
\* a repeated pattern, a second separator
RawMaps ==
    {<<"a", ":", "t">>, <<"a", ":", "a">>, <<"B", ":", "t", ":">>,
     <<"a", "t">>}

SeqsUpTo(S, n) == UNION {[1..k -> S] : k \in 0..n}

\* the command lines: source_dir is the positional argument (given or
\* not), dest_dir the --dest-dir option, pattern and map the lists argparse
\* appends to
Argvs ==
    [source_dir : BOOLEAN, dest_dir : {NoPath, OtherRoot},
     pattern : SeqsUpTo(Patterns, MaxPatterns),
     map : SeqsUpTo(RawMaps, MaxMaps),
     dry_run : BOOLEAN, interactive : BOOLEAN]

\* line 380: len(sys.argv) > 1
HasArguments(a) ==
    \/ a.source_dir
    \/ a.dest_dir # NoPath
    \/ a.pattern # << >>
    \/ a.map # << >>
    \/ a.dry_run
    \/ a.interactive

\* main going interactive whenever source_dir is missing
DispatchInteractiveWithoutSource(a) ==
    IF ~HasArguments(a) THEN "interactive"
    ELSE IF a.interactive THEN "interactive"
    ELSE IF ~a.source_dir THEN "interactive"
    ELSE "patterns"

\* lines 380-401 and 430-432: where main goes with a command line
Dispatch(a) ==
    IF ~HasArguments(a) THEN "interactive"
    ELSE IF a.interactive THEN "interactive"
    ELSE IF ~a.source_dir THEN "usage_error"
    ELSE "patterns"

\* mapping.split(':', 1)
SplitFirst(mapping) ==
    LET colons == {i \in 1..Len(mapping) : mapping[i] = ":"}
    IN  IF colons = {} THEN <<mapping>>
        ELSE LET c == CHOOSE i \in colons : \A j \in colons : i <= j
             IN  <<SubSeq(mapping, 1, c - 1),
                   SubSeq(mapping, c + 1, Len(mapping))>>

\* patterns_dict[pattern] = folder_name on the items of a dict: a key
\* already there keeps its place and takes the new value
DictSet(d, pattern, folder_name) ==
    IF \E i \in 1..Len(d) : d[i][1] = pattern
      THEN [i \in 1..Len(d) |->
              IF d[i][1] = pattern THEN <<pattern, folder_name>> ELSE d[i]]
      ELSE Append(d, <<pattern, folder_name>>)

\* the loop over args.map left at the first mapping without a separator
RECURSIVE ParseMapsAborting(_, _, _)
ParseMapsAborting(maps, dict, reported) ==
    IF maps = << >> THEN [patterns_dict |-> dict, invalid |-> reported]
    ELSE LET parts == SplitFirst(Head(maps))
         IN  IF Len(parts) = 2
               THEN ParseMapsAborting(Tail(maps),
                                      DictSet(dict, parts[1], parts[2]),
                                      reported)
               ELSE [patterns_dict |-> dict,
                     invalid |-> Append(reported, Head(maps))]

\* lines 413-419: the loop over args.map; unpacking a split without the
\* separator raises ValueError, which is caught and reported
RECURSIVE ParseMaps(_, _, _)
ParseMaps(maps, dict, reported) ==
    IF maps = << >> THEN [patterns_dict |-> dict, invalid |-> reported]
    ELSE LET parts == SplitFirst(Head(maps))
         IN  IF Len(parts) = 2
               THEN ParseMaps(Tail(maps), DictSet(dict, parts[1], parts[2]),
                              reported)
               ELSE ParseMaps(Tail(maps), dict, Append(reported, Head(maps)))

NoOrganizer == [source_dir |-> NoPath, dest_dir |-> NoPath, dry_run |-> FALSE]

\* lines 380-404: the command line is parsed and main goes one of its ways
Main ==
    /\ pc = "start"
    /\ \E a \in Argvs :
          /\ argv' = [given |-> HasArguments(a), source_dir |-> a.source_dir,
                      dest_dir |-> a.dest_dir, pattern |-> a.pattern,
                      map |-> a.map, dry_run |-> a.dry_run,
                      interactive |-> a.interactive]
          /\ pc' = Dispatch(a)
          /\ IF Dispatch(a) = "patterns"
               THEN /\ organizer' = NewOrganizer(SourceRoot, a.dest_dir, a.dry_run)
                    /\ todo' = a.pattern
               ELSE UNCHANGED <<organizer, todo>>
    /\ UNCHANGED <<files, dirs, locked, call, prev, patterns_dict, pending, results, invalid,
                   found, ncalls>>

\* lines 407-409: organize_files(pattern) for each --pattern
MainPatterns ==
    /\ pc = "patterns"
    /\ IF todo = << >>
         THEN /\ pc' = "maps"
              /\ UNCHANGED <<files, dirs, locked, organizer, call, prev,
                             todo, found>>
         ELSE /\ Begin(Head(todo), None, "patterns")
              /\ todo' = Tail(todo)
    /\ UNCHANGED <<patterns_dict, pending, results, argv, invalid, ncalls>>

\* lines 412-429: the --map arguments are parsed into patterns_dict, which
\* goes to organize_multiple_patterns; without patterns and maps the usage
\* example is printed
MainMaps ==
    /\ pc = "maps"
    /\ IF argv.map # << >>
         THEN LET parsed == ParseMaps(argv.map, << >>, << >>)
              IN  /\ invalid' = parsed.invalid
                  /\ patterns_dict' = parsed.patterns_dict
                  /\ pending' = parsed.patterns_dict
                  /\ results' = << >>
                  /\ pc' = "multi"
         ELSE /\ pc' = IF argv.pattern = << >> THEN "usage" ELSE "exit"
              /\ UNCHANGED <<invalid, patterns_dict, pending, results>>
    /\ UNCHANGED <<files, dirs, locked, organizer, call, prev, argv, todo,
                   found, ncalls>>

\* the program started from a shell, on a tree without an organizer yet
InitMain ==
    /\ TreeInit
    /\ organizer = NoOrganizer
    /\ pc = "start"
    /\ Idle

NextMain ==
    \/ Main
    \/ MainPatterns
    \/ MainMaps
    \/ MultiNext
    \/ MoveStep
    \/ Return

SpecMain == InitMain /\ [][NextMain]_vars

----------------------------------------------------------------------------
(* Properties of organize_files and organize_multiple_patterns (Spec).     *)

Live == ~organizer.dry_run
Returned == call.status = "returned"

\* the indices of the matched files the loop gave the outcome o
WithOutcome(o) == {i \in 1..Len(call.outcomes) : call.outcomes[i] = o}

\* dest_dir/F/basename for the running call
DestOf(p) == Append(JoinPath(organizer.dest_dir, call.folder), Basename(p))

\* C1: in live mode the count organize returns is the number of matched
\* files whose destination dest_dir/F/basename now exists with the content
\* of the original while the original path is gone, also when matched files
\* share a base name or the target folder already holds that name (stated
\* for the calls in which no destination path is a directory).
C1_MovedCount ==
    (Returned /\ Live /\ \A p \in Range(call.matching) : ~IsDir(DestOf(p))) =>
        call.moved_count =
            Cardinality({p \in Range(call.matching) :
                            /\ DestOf(p) \in DOMAIN files
                            /\ files[DestOf(p)] = call.pre[p]
                            /\ p \notin DOMAIN files})

\* C2: a matched file that already is at dest_dir/F/<name> is not counted
\* as moved, and after the call it is still there, once, with its content,
\* whatever the call did with the other matched files (no other process
\* interfering).
C2_NoOpSkip ==
    (Returned /\ call.external = {}) =>
        \A i \in 1..Len(call.matching) :
            LET p == call.matching[i]
            IN  p = DestOf(p) =>
                   /\ call.outcomes[i] = "skipped"
                   /\ p \in DOMAIN files
                   /\ files[p] = call.pre[p]
                   /\ {q \in DOMAIN files : files[q] = call.pre[p]} = {p}

\* C3: in dry-run mode no step of organize / organize multiple changes
\* the filesystem (no directory made, no file moved, made or deleted),
\* the count stays 0 and every match is either skipped (it is at its
\* destination) or reported as an intended move.
C3_DryRunFrame ==
    [][(organizer.dry_run /\ call'.external = call.external) =>
          /\ files' = files
          /\ dirs' = dirs
          /\ locked' = locked
          /\ call'.status # "raised"
          /\ ~call'.created
          /\ call'.moved_count = 0
          /\ \A i \in 1..Len(call'.outcomes) :
                call'.outcomes[i] =
                    IF call'.matching[i] =
                          Append(call'.target_dir, Basename(call'.matching[i]))
                      THEN "skipped" ELSE "would_move"]_vars

C3_Witness ==
    /\ organizer.dry_run
    /\ Returned
    /\ ~Exists(call.target_dir)
    /\ Cardinality(WithOutcome("would_move")) >= 2
    /\ prev.status = "returned"

\* C4: in live mode a failed move (no permission, or the file is gone) is
\* reported for that file and the loop goes on: when the call returns
\* every matched file has been visited, the count is the number of files
\* neither skipped nor failed, and the call is left by an exception only
\* before the loop starts.
C4_FailureIsolated ==
    /\ call.status = "running" => pc = "moving"
    /\ call.status = "raised" => call.matching = << >>
    /\ (Live /\ call.status \in {"running", "returned"}) =>
          /\ call.moved_count = Cardinality(WithOutcome("moved"))
          /\ \A i \in 1..Len(call.outcomes) :
                /\ call.outcomes[i] \in {"skipped", "moved", "error"}
                /\ (call.matching[i] \in call.external
                      /\ call.matching[i] # DestOf(call.matching[i]))
                      => call.outcomes[i] = "error"
    /\ (Live /\ Returned) =>
          /\ Len(call.outcomes) = Len(call.matching)
          /\ call.moved_count =
                Len(call.matching) - Cardinality(WithOutcome("skipped"))
                                   - Cardinality(WithOutcome("error"))

C4_Witness ==
    /\ Live
    /\ Returned
    /\ \E i, j \in 1..Len(call.outcomes) :
          /\ i < j
          /\ call.outcomes[i] = "error"
          /\ call.matching[i] \in call.external
          /\ call.outcomes[j] = "moved"

\* C5: a failure in one mapping (the target directory cannot be made)
\* does not keep the following mappings from being processed: when
\* organize_multiple_patterns has stopped, no mapping is left unvisited.
C5_MultiIsolation ==
    (call.caller = "multi" /\ pc \notin {"multi", "moving"}) =>
        pending = << >>

\* C9: a live organize(P, F) right after a live organize(P, F) in which no
\* move failed returns 0 and leaves the filesystem as it found it (but for
\* what another process removed meanwhile).
C9_LiveIdempotent ==
    (/\ Live
     /\ Returned
     /\ prev.status = "returned"
     /\ ~prev.failed
     /\ prev.pattern = call.pattern
     /\ prev.folder = call.folder) =>
        /\ call.moved_count = 0
        /\ ~call.created
        /\ files = [p \in DOMAIN call.pre \ call.external |-> call.pre[p]]

C9_Witness ==
    /\ Live
    /\ Returned
    /\ prev.status = "returned"
    /\ ~prev.failed
    /\ prev.pattern = call.pattern
    /\ prev.folder = call.folder
    /\ Cardinality(WithOutcome("skipped")) >= 2
    /\ call.external = {}

\* C10: a live organize(P, F) whose matched files have pairwise distinct
\* base names and in which no move fails (and no other process interferes)
\* conserves the files: every matched file is at dest_dir/F/<name> with its
\* content, every other file is where it was, and the number of regular
\* files is unchanged.
C10_Conservation ==
    (/\ Live
     /\ Returned
     /\ call.external = {}
     /\ WithOutcome("error") = {}
     /\ \A i, j \in 1..Len(call.matching) :
           i # j => Basename(call.matching[i]) # Basename(call.matching[j])) =>
        /\ \A p \in Range(call.matching) :
              /\ DestOf(p) \in DOMAIN files
              /\ files[DestOf(p)] = call.pre[p]
              /\ p # DestOf(p) => p \notin DOMAIN files
        /\ \A p \in DOMAIN call.pre \ Range(call.matching) :
              /\ p \in DOMAIN files
              /\ files[p] = call.pre[p]
        /\ Cardinality(DOMAIN files) = Cardinality(DOMAIN call.pre)

\* organize_multiple_patterns has finished two consecutive mappings: `prev`
\* is the frame of the earlier one, `call` of the later one
TwoMappingsDone ==
    /\ call.caller = "multi"
    /\ Returned
    /\ prev.status = "returned"
    /\ Len(patterns_dict) - Len(pending) >= 2

EarlierTarget == JoinPath(organizer.dest_dir, prev.folder)
LaterTarget == JoinPath(organizer.dest_dir, call.folder)

\* the files present when the earlier mapping started whose names contain
\* the patterns of both mappings
MatchedByBoth ==
    {p \in DOMAIN prev.pre :
        /\ IsPrefix(organizer.source_dir, p)
        /\ NameMatches(Basename(p), prev.pattern)
        /\ NameMatches(Basename(p), call.pattern)}

\* those of them the earlier mapping does not find in its own folder
MovedTwice == {p \in MatchedByBoth : Parent(p) # EarlierTarget}

\* a live organize_multiple_patterns with dest_dir inside source_dir, two
\* mappings with different target folders, no failed move in either and
\* no file removed by another process meanwhile
DoubleMoveCase ==
    /\ Live
    /\ IsPrefix(organizer.source_dir, organizer.dest_dir)
    /\ TwoMappingsDone
    /\ EarlierTarget # LaterTarget
    /\ ~prev.failed
    /\ prev.external = {}
    /\ WithOutcome("error") = {}
    /\ call.external = {}

\* no directory in either folder has the name of a file of S
NoDirectoryNamed(S) ==
    \A p \in S : /\ ~IsDir(Append(EarlierTarget, Basename(p)))
                 /\ ~IsDir(Append(LaterTarget, Basename(p)))

\* the files of S have pairwise distinct base names
DistinctNames(S) == \A p, q \in S : p # q => Basename(p) # Basename(q)

\* C11 as stated: in a live organizeMultiple with dest_dir inside
\* source_dir, every file whose name contains the patterns of two mappings
\* with different target folders is moved by the earlier mapping and again
\* by the later one, ends in the later mapping's folder and is counted in
\* both per-pattern counts (stated for runs without a failed move, without
\* two matched files of one name and without a directory of that name in
\* either folder).
C11_MovedByBoth ==
    (/\ DoubleMoveCase
     /\ DistinctNames(MatchedByBoth)
     /\ NoDirectoryNamed(MatchedByBoth)) =>
        /\ \A p \in MatchedByBoth :
              LET between == Append(EarlierTarget, Basename(p))
                  final == Append(LaterTarget, Basename(p))
              IN  /\ p # between
                  /\ between \in DOMAIN call.pre
                  /\ call.pre[between] = prev.pre[p]
                  /\ final \in DOMAIN files
                  /\ files[final] = prev.pre[p]
        /\ results[prev.pattern] >= Cardinality(MatchedByBoth)
        /\ results[call.pattern] >= Cardinality(MatchedByBoth)

\* C11, amended: in a live organizeMultiple with dest_dir inside source_dir
\* and no failed move, a file whose name contains the patterns of two
\* consecutive mappings with different target folders, which is not already
\* directly in the earlier mapping's folder and whose name is no directory
\* in either folder, is moved by the earlier mapping into its folder and
\* what is then at that path is moved again by the later mapping into the
\* later folder; it is the file itself when no other such file has its
\* name.  The earlier count covers every such file, the later count the
\* move out of the earlier folder.  A file already directly in the earlier
\* mapping's folder is skipped by the earlier mapping and so counted only
\* by the later one.
C11_MovedTwiceUnlessInPlace ==
    (DoubleMoveCase /\ NoDirectoryNamed(MatchedByBoth)) =>
        /\ \A p \in MovedTwice :
              LET between == Append(EarlierTarget, Basename(p))
                  final == Append(LaterTarget, Basename(p))
              IN  /\ p \notin DOMAIN call.pre
                  /\ between \in DOMAIN call.pre
                  /\ between \notin DOMAIN files
                  /\ final \in DOMAIN files
                  /\ files[final] = call.pre[between]
                  /\ \E i \in WithOutcome("moved") : call.matching[i] = between
                  /\ DistinctNames(MatchedByBoth) =>
                        /\ call.pre[between] = prev.pre[p]
                        /\ files[final] = prev.pre[p]
        /\ results[prev.pattern] =
              Cardinality({q \in DOMAIN prev.pre :
                             /\ NameMatches(Basename(q), prev.pattern)
                             /\ Parent(q) # EarlierTarget})
        /\ \A p \in MatchedByBoth \ MovedTwice :
              DistinctNames(MatchedByBoth) =>
                  LET final == Append(LaterTarget, Basename(p))
                  IN  /\ p \in DOMAIN call.pre
                      /\ call.pre[p] = prev.pre[p]
                      /\ final \in DOMAIN files
                      /\ files[final] = prev.pre[p]

\* two files are each moved by both mappings, so that the counts add up to
\* more than the number of files
C11_Witness ==
    /\ DoubleMoveCase
    /\ NoDirectoryNamed(MatchedByBoth)
    /\ DistinctNames(MatchedByBoth)
    /\ Cardinality(MovedTwice) >= 2
    /\ results[prev.pattern] + results[call.pattern] >
          Cardinality(DOMAIN prev.pre)

----------------------------------------------------------------------------
(* Properties of find_files_with_pattern (SpecFind).                       *)

\* p is under source_dir, at any depth or as a direct child
InScope(p, recursive) ==
    /\ IsPrefix(organizer.source_dir, p)
    /\ Len(p) > Len(organizer.source_dir)
    /\ recursive \/ Len(p) = Len(organizer.source_dir) + 1

\* some slice of the lowered name is the lowered pattern
HasSlice(name, pattern) ==
    \E i \in 1..(Len(name) + 1) : \E j \in (i - 1)..Len(name) :
        SubSeq(Lower(name), i, j) = Lower(pattern)

\* C6: find(D, P, recursive) returns exactly the regular files in scope
\* whose lowered base name contains the lowered P, each once and no
\* directory; the empty pattern matches every file in scope; the
\* filesystem is left as it was.
C6_FindExact ==
    [][found'.called =>
          /\ fsvars' = fsvars
          /\ Range(found'.matching_files) =
                {p \in DOMAIN files :
                    /\ InScope(p, found'.recursive)
                    /\ HasSlice(Basename(p), found'.pattern)}
          /\ Len(found'.matching_files) =
                Cardinality(Range(found'.matching_files))
          /\ Range(found'.matching_files) \cap dirs = {}
          /\ found'.pattern = << >> =>
                Range(found'.matching_files) =
                    {p \in DOMAIN files : InScope(p, found'.recursive)}]_vars

C6_Witness ==
    /\ found.called
    /\ found.recursive
    /\ found.pattern = <<"B">>
    /\ \E p \in Range(found.matching_files) :
          Len(p) = Len(organizer.source_dir) + MaxDepth + 1
    /\ \E q \in DOMAIN files :
          InScope(q, TRUE) /\ q \notin Range(found.matching_files)

----------------------------------------------------------------------------
(* Properties of main (SpecMain).                                          *)

WellFormed(mapping) == ":" \in Range(mapping)
Malformed(mapping) == ~WellFormed(mapping)

\* the text before and after the first separator of a well-formed mapping
FirstColon(mapping) ==
    CHOOSE c \in 1..Len(mapping) :
        mapping[c] = ":" /\ \A j \in 1..(c - 1) : mapping[j] # ":"
PatternOf(mapping) == SubSeq(mapping, 1, FirstColon(mapping) - 1)
FolderOf(mapping) == SubSeq(mapping, FirstColon(mapping) + 1, Len(mapping))

\* main is past the parsing of the --map arguments (lines 413-419)
MapsParsed ==
    /\ argv.map # << >>
    /\ \/ pc \in {"multi", "exit"}
       \/ pc \in {"moving", "raised"} /\ call.caller = "multi"

\* C7: a --map argument without ':' is reported as invalid and discarded,
\* and it keeps no other argument from being processed: the dict handed to
\* organize_multiple_patterns holds the pattern of every well-formed
\* argument (with the folder of the last argument naming that pattern) and
\* nothing else, and when main exits organize has returned a count for
\* each of them.
C7_MalformedMapSkipped ==
    MapsParsed =>
        /\ invalid = SelectSeq(argv.map, Malformed)
        /\ \A i \in 1..Len(argv.map) :
              WellFormed(argv.map[i]) =>
                 \E j \in 1..Len(patterns_dict) :
                    patterns_dict[j][1] = PatternOf(argv.map[i])
        /\ \A j \in 1..Len(patterns_dict) :
              \E i \in 1..Len(argv.map) :
                 /\ WellFormed(argv.map[i])
                 /\ patterns_dict[j] =
                       <<PatternOf(argv.map[i]), FolderOf(argv.map[i])>>
                 /\ \A k \in (i + 1)..Len(argv.map) :
                       WellFormed(argv.map[k]) =>
                          PatternOf(argv.map[k]) # PatternOf(argv.map[i])
        /\ pc = "exit" =>
              \A i \in 1..Len(argv.map) :
                 WellFormed(argv.map[i]) =>
                    PatternOf(argv.map[i]) \in DOMAIN results

C7_Witness ==
    /\ pc = "exit"
    /\ ~argv.dry_run
    /\ \E i, j \in 1..Len(argv.map) :
          /\ i < j
          /\ Malformed(argv.map[i])
          /\ WellFormed(argv.map[j])
          /\ PatternOf(argv.map[j]) \in DOMAIN results
          /\ results[PatternOf(argv.map[j])] > 0

\* C8 as stated: whenever the positional source_dir is omitted, whatever
\* the other flags, main enters interactive mode.
C8_OmittedSourceInteractive ==
    (pc # "start" /\ ~argv.source_dir) => pc = "interactive"

\* C8 amended: with source_dir omitted main enters interactive mode when
\* there is no argument at all or --interactive is given; with any other
\* argument it reports that the source directory is required and returns
\* without organizing anything.
C8_OmittedSourceDispatch ==
    (pc # "start" /\ ~argv.source_dir) =>
        /\ (~argv.given \/ argv.interactive) => pc = "interactive"
        /\ (argv.given /\ ~argv.interactive) =>
              /\ pc = "usage_error"
              /\ call = NoCall
              /\ organizer = NoOrganizer

C8_Witness ==
    /\ pc = "usage_error"
    /\ argv.map # << >>
    /\ argv.pattern # << >>
    /\ argv.dry_run

====
